---- MODULE Spec2Model ----
(***************************************************************************)
(* dyn_path: the two macros dyn_access! and dyn_path! (src/src/lib.rs),    *)
(* the import shim __import_alloc! and the std / alloc feature gates.      *)
(*                                                                         *)
(* One behaviour of the model is one macro invocation: the crate is built  *)
(* under a feature configuration, the invocation is expanded rule by rule  *)
(* and the expanded code runs in the order the nested blocks prescribe.    *)
(* Each macro rule is one action.  Text is a sequence of one-character     *)
(* strings, so formatting is computed character by character.              *)
(***************************************************************************)
EXTENDS Integers, Sequences, FiniteSets, TLC

VARIABLES
    std,        \* feature "std" of the build
    alloc,      \* feature "alloc" of the build
    mode,       \* "access": a dyn_access! invocation, "path": a dyn_path! one
    container,  \* which sample container the head refers into (access)
    head,       \* the head token(s): [form, id, node]
    path,       \* the segments written after the head, in source order
    rest,       \* $($rest:tt)* : the segments not yet matched by a rule
    pc,         \* position in the build / expansion / run
    buildErr,   \* why the build failed, "none" when it did not
    acc,        \* dyn_access: the Option<&V> accumulator ({} is None, {n} is Some(&n))
    buf,        \* dyn_path: the String accumulator
    evalLog,    \* positions whose expression has been evaluated (0 is the head)
    getLog,     \* the .get() calls made: <<position, node, key>>
    result,     \* value of the dyn_access! expression
    out         \* value of the dyn_path! expression

vars == <<std, alloc, mode, container, head, path, rest, pc, buildErr,
          acc, buf, evalLog, getLog, result, out>>

\* Longest path taken from the segment alphabet (the test paths are added as is).
MaxLen == 3

-----------------------------------------------------------------------------
(* Text *)

very    == <<"v", "e", "r", "y">>
nested  == <<"n", "e", "s", "t", "e", "d">>
or      == <<"o", "r">>
numbers == <<"n", "u", "m", "b", "e", "r", "s">>
bunch   == <<"b", "u", "n", "c", "h">>
of      == <<"o", "f">>
values  == <<"v", "a", "l", "u", "e", "s">>
value   == <<"v", "a", "l", "u", "e">>
on      == <<"o", "n">>
index   == <<"i", "n", "d", "e", "x">>
type    == <<"t", "y", "p", "e">>
map     == <<"m", "a", "p">>
zero    == <<"0">>
quoted  == <<"a", "\"", "\\">>

\* An identifier token; raw is the r# prefix.
Ident(name)    == [raw |-> FALSE, name |-> name]
RawIdent(name) == [raw |-> TRUE, name |-> name]

\* ::core::stringify!($ident): the token's text, the r# of a raw identifier included.
StringifyNoRaw(id) == id.name
Stringify(id) == IF id.raw THEN <<"r", "#">> \o id.name ELSE id.name

-----------------------------------------------------------------------------
(* Values and index expressions *)

StrVal(s)    == [t |-> "str", s |-> s, n |-> 0]
NumVal(n)    == [t |-> "num", s |-> <<>>, n |-> n]
\* A value of a type whose Debug impl writes `partial` and then returns Err.
FaultyVal(s) == [t |-> "faulty", s |-> s, n |-> 0]

\* $idx:expr, as far as the tests and docs use it: a literal, a sum of two
\* literals, or an expression yielding a value with a failing Debug impl.
StrLit(s)    == [op |-> "str", s |-> s, a |-> 0, b |-> 0]
NumLit(n)    == [op |-> "num", s |-> <<>>, a |-> n, b |-> 0]
AddExpr(a, b) == [op |-> "add", s |-> <<>>, a |-> a, b |-> b]
FaultyExpr(s) == [op |-> "faulty", s |-> s, a |-> 0, b |-> 0]

Eval(e) ==
    CASE e.op = "str"    -> StrVal(e.s)
      [] e.op = "num"    -> NumVal(e.a)
      [] e.op = "add"    -> NumVal(e.a + e.b)
      [] e.op = "faulty" -> FaultyVal(e.s)

NoIdent == Ident(<<>>)
NoExpr  == NumLit(0)
Field(id) == [kind |-> "field", id |-> id, e |-> NoExpr]
Index(e)  == [kind |-> "index", id |-> NoIdent, e |-> e]

-----------------------------------------------------------------------------
(* Containers: a set of nodes and the edges .get() follows *)

ObjEdges(n, kv) == {<<n, StrVal(p[1]), p[2]>> : p \in kv}
ArrEdges(n, items) == {<<n, NumVal(i - 1), items[i]>> : i \in DOMAIN items}

\* test.rs map(): {"very": {"nested": ["bunch","of","values"], "or": {"numbers": 50}}}
TestMap ==
    [val   |-> <<[t |-> "obj", s |-> <<>>, n |-> 0],
                 [t |-> "obj", s |-> <<>>, n |-> 0],
                 [t |-> "arr", s |-> <<>>, n |-> 0],
                 StrVal(bunch), StrVal(of), StrVal(values),
                 [t |-> "obj", s |-> <<>>, n |-> 0],
                 NumVal(50)>>,
     edges |-> ObjEdges(1, {<<very, 2>>})
               \cup ObjEdges(2, {<<nested, 3>>, <<or, 7>>})
               \cup ArrEdges(3, <<4, 5, 6>>)
               \cup ObjEdges(7, {<<numbers, 8>>})]

\* [{"type": 1, "r#type": 2, "0": "very", "very": {}}, "of"]
MixedDoc ==
    [val   |-> <<[t |-> "arr", s |-> <<>>, n |-> 0],
                 [t |-> "obj", s |-> <<>>, n |-> 0],
                 StrVal(of), NumVal(1), NumVal(2), StrVal(very),
                 [t |-> "obj", s |-> <<>>, n |-> 0]>>,
     edges |-> ArrEdges(1, <<2, 3>>)
               \cup ObjEdges(2, {<<type, 4>>, <<<<"r", "#">> \o type, 5>>,
                                 <<zero, 6>>, <<very, 7>>})]

\* {}
EmptyDoc == [val |-> <<[t |-> "obj", s |-> <<>>, n |-> 0]>>, edges |-> {}]

Containers == <<TestMap, MixedDoc, EmptyDoc>>
Nodes(c) == DOMAIN Containers[c].val

\* v.get(key): Option<&V>
Get(v, key) == {e[3] : e \in {x \in Containers[container].edges : x[1] = v /\ x[2] = key}}

-----------------------------------------------------------------------------
(* Feature gates (cfg attributes) *)

\* #[macro_export] macro_rules! dyn_access: no cfg attribute
DynAccessDefined == TRUE

\* #[cfg(any(feature = "alloc", feature = "std"))] macro_rules! dyn_path
DynPathDefinedAllocOnly == alloc
DynPathDefined == alloc \/ std

\* #[cfg(all(not(feature = "std"), feature = "alloc"))] pub extern crate alloc;
ExternAllocDeclared == ~std /\ alloc

\* __import_alloc!(): the rule under cfg(feature = "alloc") or the one under
\* cfg(not(feature = "alloc"))
ImportAllocExpansion == IF alloc THEN "use_alloc" ELSE "empty"

\* #![cfg_attr(not(feature = "std"), no_std)]: ToString is in the prelude with
\* std only; otherwise the shim's `use` has to bring it into scope.
ToStringInScope == std \/ ImportAllocExpansion = "use_alloc"

\* Outcome of building one invocation of the macro named by m.
BuildOutcome(m) ==
    IF m = "access"
    THEN IF DynAccessDefined THEN "none" ELSE "macro_undefined"
    ELSE IF ~DynPathDefined THEN "macro_undefined"
    ELSE IF ImportAllocExpansion = "use_alloc" /\ ~ExternAllocDeclared
         THEN "unresolved_import"
    ELSE IF ~ToStringInScope THEN "no_to_string"
    ELSE "none"

-----------------------------------------------------------------------------
(* Inputs *)

BoundedSeq(S, n) == UNION {[1..k -> S] : k \in 0..n}

AccessSegs ==
    {Field(Ident(very)), Field(Ident(nested)), Field(RawIdent(type)),
     Index(StrLit(very)), Index(NumLit(0)), Index(AddExpr(0, 1))}

\* test.rs: nested_access, direct_expression, access_types
AccessTestPaths ==
    {<<Field(Ident(very)), Field(Ident(nested)), Index(NumLit(0))>>,
     <<Field(Ident(very)), Field(Ident(or)), Field(Ident(numbers))>>,
     <<Field(Ident(very)), Field(Ident(nested)), Index(NumLit(1))>>,
     <<Field(Ident(very))>>,
     <<Index(StrLit(very))>>}

PathHeads == {Ident(very), Ident(map), RawIdent(type)}

PathSegs ==
    {Field(Ident(nested)), Field(RawIdent(type)),
     Index(StrLit(value)), Index(StrLit(quoted)),
     Index(AddExpr(1, 1)), Index(NumLit(12)),
     Index(FaultyExpr(<<"<">>)), Index(FaultyExpr(<<>>))}

\* test.rs path_descriptor: very.nested["value"].on.index[1 + 1]
PathTestPath ==
    <<Field(Ident(nested)), Index(StrLit(value)), Field(Ident(on)),
      Field(Ident(index)), Index(AddExpr(1, 1))>>

\* A bare name is a variable holding the container; a parenthesized expression
\* may denote any value inside it, as (vector[0]) does in direct_expression.
AccessHeads ==
    {[form |-> "ident", id |-> Ident(map), c |-> c, node |-> 1] : c \in DOMAIN Containers}
    \cup UNION {{[form |-> "paren", id |-> NoIdent, c |-> c, node |-> n] : n \in Nodes(c)}
                : c \in DOMAIN Containers}

Init ==
    /\ std \in BOOLEAN
    /\ alloc \in BOOLEAN
    /\ mode \in {"access", "path"}
    /\ \/ /\ mode = "access"
          /\ \E h \in AccessHeads :
                /\ container = h.c
                /\ head = [form |-> h.form, id |-> h.id, node |-> h.node]
          /\ path \in BoundedSeq(AccessSegs, MaxLen) \cup AccessTestPaths
       \/ /\ mode = "path"
          /\ container = 1
          /\ head \in {[form |-> "ident", id |-> i, node |-> 1] : i \in PathHeads}
          /\ path \in BoundedSeq(PathSegs, MaxLen) \cup {PathTestPath}
    /\ rest = path
    /\ pc = "build"
    /\ buildErr = "none"
    /\ acc = {}
    /\ buf = <<>>
    /\ evalLog = <<>>
    /\ getLog = <<>>
    /\ result = {}
    /\ out = <<>>

\* 1-based position in path of the segment the next @recurse rule matches.
Pos == Len(path) - Len(rest) + 1

Build ==
    /\ pc = "build"
    /\ buildErr' = BuildOutcome(mode)
    /\ pc' = IF BuildOutcome(mode) = "none" THEN "head" ELSE "build_failed"
    /\ UNCHANGED <<std, alloc, mode, container, head, path, rest,
                   acc, buf, evalLog, getLog, result, out>>

-----------------------------------------------------------------------------
(* dyn_access! *)

\* $acc.and_then(|v| v.get(key)): the closure runs on Some only.
AndThenGet(a, key) == IF a = {} THEN {} ELSE Get(CHOOSE v \in a : TRUE, key)

\* let __ = Some(&($head));
AccessHeadNone(n) == {}
AccessHeadAcc(n) == {n}

\* $acc.and_then(|v| v.get(::core::stringify!($field)))
FieldStepNoRaw(a, id) == AndThenGet(a, StrVal(StringifyNoRaw(id)))
FieldStepFromHead(a, id) ==
    IF a = {} THEN Get(head.node, StrVal(Stringify(id)))
    ELSE AndThenGet(a, StrVal(Stringify(id)))
FieldStep(a, id) == AndThenGet(a, StrVal(Stringify(id)))

\* $acc.and_then(|v| v.get($idx))
IndexStepKeepAcc(a, e) ==
    IF AndThenGet(a, Eval(e)) = {} THEN a ELSE AndThenGet(a, Eval(e))
IndexStep(a, e) == AndThenGet(a, Eval(e))

\* $idx is written inside the closure, which and_then calls on Some only.
IdxEvaluatedEagerly(a) == TRUE
IdxEvaluated(a) == a # {}

\* The .get() call the step at position p makes, if any: <<p, node, key>>.
Lookups(a, p, key) == IF a = {} THEN <<>> ELSE <<<<p, CHOOSE v \in a : TRUE, key>>>>

\* ($head:ident $($rest:tt)*) => dyn_access!(($head) $($rest)*)
AccessHeadIdent ==
    /\ mode = "access" /\ pc = "head" /\ head.form = "ident"
    /\ pc' = "head_expr"
    /\ UNCHANGED <<std, alloc, mode, container, head, path, rest, buildErr,
                   acc, buf, evalLog, getLog, result, out>>

\* (($head:expr) $($rest:tt)*)
AccessHeadExpr ==
    /\ mode = "access"
    /\ \/ pc = "head" /\ head.form = "paren"
       \/ pc = "head_expr"
    /\ acc' = AccessHeadAcc(head.node)
    /\ evalLog' = Append(evalLog, 0)
    /\ pc' = "recurse"
    /\ UNCHANGED <<std, alloc, mode, container, head, path, rest, buildErr,
                   buf, getLog, result, out>>

\* (@recurse $acc:expr, . $field:ident $($rest:tt)*)
AccessRecurseField ==
    /\ mode = "access" /\ pc = "recurse"
    /\ rest # <<>> /\ Head(rest).kind = "field"
    /\ acc' = FieldStep(acc, Head(rest).id)
    /\ getLog' = getLog \o Lookups(acc, Pos, StrVal(Stringify(Head(rest).id)))
    /\ rest' = Tail(rest)
    /\ UNCHANGED <<std, alloc, mode, container, head, path, pc, buildErr,
                   buf, evalLog, result, out>>

\* (@recurse $acc:expr, [$idx:expr] $($rest:tt)*)
AccessRecurseIndex ==
    /\ mode = "access" /\ pc = "recurse"
    /\ rest # <<>> /\ Head(rest).kind = "index"
    /\ acc' = IndexStep(acc, Head(rest).e)
    /\ evalLog' = IF IdxEvaluated(acc) THEN Append(evalLog, Pos) ELSE evalLog
    /\ getLog' = getLog \o Lookups(acc, Pos, Eval(Head(rest).e))
    /\ rest' = Tail(rest)
    /\ UNCHANGED <<std, alloc, mode, container, head, path, pc, buildErr,
                   buf, result, out>>

\* (@recurse $acc:expr,) => {{ $acc }}
AccessRecurseEnd ==
    /\ mode = "access" /\ pc = "recurse"
    /\ rest = <<>>
    /\ result' = acc
    /\ pc' = "done"
    /\ UNCHANGED <<std, alloc, mode, container, head, path, rest, buildErr,
                   acc, buf, evalLog, getLog, out>>

-----------------------------------------------------------------------------
(* dyn_path! *)

Digit(d) == <<"0", "1", "2", "3", "4", "5", "6", "7", "8", "9">>[d + 1]

\* Display / Debug of an integer: its decimal digits.
RECURSIVE Dec(_)
Dec(n) == IF n < 10 THEN <<Digit(n)>> ELSE Dec(n \div 10) \o <<Digit(n % 10)>>

\* <str as Debug>: the characters, with " and \ escaped by a backslash.
RECURSIVE Escape(_)
Escape(s) ==
    IF s = <<>> THEN <<>>
    ELSE (IF Head(s) \in {"\"", "\\"} THEN <<"\\", Head(s)>> ELSE <<Head(s)>>)
         \o Escape(Tail(s))

\* <T as Debug>::fmt: the text written and whether it returned Ok.
DebugFmtDisplay(v) ==
    CASE v.t = "num"    -> [text |-> Dec(v.n), ok |-> TRUE]
      [] v.t = "str"    -> [text |-> v.s, ok |-> TRUE]
      [] v.t = "faulty" -> [text |-> v.s, ok |-> FALSE]
DebugFmt(v) ==
    CASE v.t = "num"    -> [text |-> Dec(v.n), ok |-> TRUE]
      [] v.t = "str"    -> [text |-> <<"\"">> \o Escape(v.s) \o <<"\"">>, ok |-> TRUE]
      [] v.t = "faulty" -> [text |-> v.s, ok |-> FALSE]

\* ::core::write!($acc, ".{}", stringify!($field)): String::write_str cannot fail.
WriteField(b, id) == [buf |-> b \o <<".">> \o Stringify(id), ok |-> TRUE]

\* ::core::write!($acc, "[{:?}]", ($idx)): write_fmt writes the pieces in order
\* and returns at the first Err, leaving what was written in the String.
WriteIndex(b, v) ==
    IF DebugFmt(v).ok
    THEN [buf |-> b \o <<"[">> \o DebugFmt(v).text \o <<"]">>, ok |-> TRUE]
    ELSE [buf |-> b \o <<"[">> \o DebugFmt(v).text, ok |-> FALSE]

\* let _ = write!(..): the Result is dropped and the next rule is expanded.
AfterWritePropagate(ok) == IF ok THEN "recurse" ELSE "failed"
AfterWrite(ok) == "recurse"

\* ($idx) is an argument of format_args!, evaluated once before write_fmt runs.
PathEvalLogTwice(log, p) == Append(Append(log, p), p)
PathEvalLog(log, p) == Append(log, p)

\* let mut __ = ::core::stringify!($head).to_string();
PathHeadBuf(id) == Stringify(id)

\* ($head:ident $($rest:tt)*)
PathHead ==
    /\ mode = "path" /\ pc = "head"
    /\ buf' = PathHeadBuf(head.id)
    /\ pc' = "recurse"
    /\ UNCHANGED <<std, alloc, mode, container, head, path, rest, buildErr,
                   acc, evalLog, getLog, result, out>>

\* (@recurse $acc:expr, . $field:ident $($rest:tt)*)
PathRecurseField ==
    /\ mode = "path" /\ pc = "recurse"
    /\ rest # <<>> /\ Head(rest).kind = "field"
    /\ buf' = WriteField(buf, Head(rest).id).buf
    /\ pc' = AfterWrite(WriteField(buf, Head(rest).id).ok)
    /\ rest' = Tail(rest)
    /\ UNCHANGED <<std, alloc, mode, container, head, path, buildErr,
                   acc, evalLog, getLog, result, out>>

\* (@recurse $acc:expr, [$idx:expr] $($rest:tt)*)
PathRecurseIndex ==
    /\ mode = "path" /\ pc = "recurse"
    /\ rest # <<>> /\ Head(rest).kind = "index"
    /\ evalLog' = PathEvalLog(evalLog, Pos)
    /\ buf' = WriteIndex(buf, Eval(Head(rest).e)).buf
    /\ pc' = AfterWrite(WriteIndex(buf, Eval(Head(rest).e)).ok)
    /\ rest' = Tail(rest)
    /\ UNCHANGED <<std, alloc, mode, container, head, path, buildErr,
                   acc, getLog, result, out>>

\* (@recurse $acc:expr,) => {{ $acc }}
PathRecurseEnd ==
    /\ mode = "path" /\ pc = "recurse"
    /\ rest = <<>>
    /\ out' = buf
    /\ pc' = "done"
    /\ UNCHANGED <<std, alloc, mode, container, head, path, rest, buildErr,
                   acc, buf, evalLog, getLog, result>>

-----------------------------------------------------------------------------

Next ==
    \/ Build
    \/ AccessHeadIdent
    \/ AccessHeadExpr
    \/ AccessRecurseField
    \/ AccessRecurseIndex
    \/ AccessRecurseEnd
    \/ PathHead
    \/ PathRecurseField
    \/ PathRecurseIndex
    \/ PathRecurseEnd

Spec == Init /\ [][Next]_vars

-----------------------------------------------------------------------------
(* Reference semantics of a path *)

\* The key a segment looks up.
KeyOf(seg) == IF seg.kind = "field" THEN StrVal(Stringify(seg.id)) ELSE Eval(seg.e)

\* Left fold of get over the segments, from an optional reference.
RECURSIVE FoldGet(_, _)
FoldGet(a, segs) ==
    IF segs = <<>> THEN a
    ELSE FoldGet(UNION {Get(v, KeyOf(Head(segs))) : v \in a}, Tail(segs))

Consumed == Len(path) - Len(rest)
Prefix(k) == SubSeq(path, 1, k)
\* The fold over the first k segments is absent.
AbsentAfter(k) == FoldGet({head.node}, Prefix(k)) = {}

ValueOf(n) == Containers[container].val[n]

-----------------------------------------------------------------------------
(* Claims: dyn_access! *)

\* C1: dyn_access! returns the left-to-right fold of get over the segments,
\* starting from Some(&head); a field looks up the stringified name, an index
\* the value of its expression.  The accumulator is that fold over the segments
\* consumed so far, and the paths of test.rs give "bunch", 50 and "of".
C1_FoldOfGet ==
    /\ (mode = "access" /\ pc \in {"recurse", "done"})
          => acc = FoldGet({head.node}, Prefix(Consumed))
    /\ (mode = "access" /\ pc = "done")
          => result = FoldGet({head.node}, path)
    /\ (mode = "access" /\ pc = "done" /\ container = 1 /\ head.node = 1)
          => /\ path = <<Field(Ident(very)), Field(Ident(nested)), Index(NumLit(0))>>
                   => result # {} /\ \A n \in result : ValueOf(n) = StrVal(bunch)
             /\ path = <<Field(Ident(very)), Field(Ident(or)), Field(Ident(numbers))>>
                   => result # {} /\ \A n \in result : ValueOf(n) = NumVal(50)
             /\ path = <<Field(Ident(very)), Field(Ident(nested)), Index(NumLit(1))>>
                   => result # {} /\ \A n \in result : ValueOf(n) = StrVal(of)

\* direct_expression: (vector[0]).very.nested[1] has ended with "of".
C1_Witness ==
    /\ mode = "access" /\ pc = "done" /\ container = 1
    /\ head.form = "paren" /\ head.node = 1
    /\ path = <<Field(Ident(very)), Field(Ident(nested)), Index(NumLit(1))>>
    /\ \E n \in result : ValueOf(n) = StrVal(of)

\* C2: once the lookup of a segment is absent, no later segment calls get and
\* no later index expression is evaluated: every get call and every evaluation
\* happens at a position whose preceding segments all yielded a value.
C2_NothingAfterAbsent ==
    mode = "access" =>
        /\ \A i \in DOMAIN evalLog :
              evalLog[i] = 0 \/ ~AbsentAfter(evalLog[i] - 1)
        /\ \A i \in DOMAIN getLog : ~AbsentAfter(getLog[i][1] - 1)

\* A run has ended in which segment 1 was absent and an index segment follows.
C2_Witness ==
    /\ mode = "access" /\ pc = "done"
    /\ Len(path) >= 2 /\ AbsentAfter(1)
    /\ \E j \in 2..Len(path) :
          path[j].kind = "index" /\ \A i \in DOMAIN evalLog : evalLog[i] # j

\* C3: an absent accumulator stays absent through every later segment and the
\* result is then absent; the run never ends in anything but a built, finished
\* expansion.
C3_AbsentIsPermanent ==
    /\ [][(mode = "access" /\ pc = "recurse" /\ acc = {})
             => (acc' = {} /\ (pc' = "done" => result' = {}))]_vars
    /\ [](mode = "access" => pc \in {"build", "head", "head_expr", "recurse", "done"})

\* A run has ended absent although segments followed the failing lookup.
C3_Witness ==
    /\ mode = "access" /\ pc = "done" /\ result = {}
    /\ getLog # <<>>
    /\ getLog[Len(getLog)][1] < Len(path)

\* C5: with no segments the result is Some(&head) and get is never called,
\* for a bare-name head and for a parenthesized one.
C5_ZeroSegments ==
    (mode = "access" /\ pc = "done" /\ path = <<>>)
        => result = {head.node} /\ getLog = <<>>

C5_Witness ==
    /\ mode = "access" /\ pc = "done" /\ path = <<>>
    /\ head.form = "ident" /\ result = {head.node}

\* The path with the field segment at position k written as ["name"].
Bracketed(segs, k) == [segs EXCEPT ![k] = Index(StrLit(Stringify(segs[k].id)))]

\* C6: a field segment yields what an index segment whose expression is the
\* string of the same name yields from the same accumulator, so that a path
\* and the same path with one field written as ["name"] have equal results; on
\* the test map map.very and map["very"] are both present and equal.
C6_FieldEqualsStringIndex ==
    /\ [][AccessRecurseField
             => acc' = IndexStep(acc, StrLit(Stringify(Head(rest).id)))]_vars
    /\ []((mode = "access" /\ pc = "done")
            => \A k \in DOMAIN path :
                  path[k].kind = "field"
                     => result = FoldGet({head.node}, Bracketed(path, k)))
    /\ []((mode = "access" /\ pc = "done" /\ container = 1 /\ head.node = 1
              /\ path \in {<<Field(Ident(very))>>, <<Index(StrLit(very))>>})
            => result = Get(1, StrVal(very)) /\ result # {})

C6_Witness ==
    /\ mode = "access" /\ pc = "done" /\ container = 1 /\ head.node = 1
    /\ path = <<Field(Ident(very))>> /\ result # {}

-----------------------------------------------------------------------------
(* Claims: dyn_path! *)

\* The text one segment stands for: .name, or [debug-text(value)].
SegText(seg) ==
    IF seg.kind = "field" THEN <<".">> \o Stringify(seg.id)
    ELSE <<"[">> \o DebugFmt(Eval(seg.e)).text \o <<"]">>

RECURSIVE Render(_)
Render(segs) == IF segs = <<>> THEN <<>> ELSE SegText(Head(segs)) \o Render(Tail(segs))

\* What a segment leaves in the String: its text, or for an index whose Debug
\* impl fails the opening bracket and whatever the impl wrote before failing.
SegWritten(seg) ==
    IF seg.kind = "index" /\ ~DebugFmt(Eval(seg.e)).ok
    THEN <<"[">> \o DebugFmt(Eval(seg.e)).text
    ELSE SegText(seg)

RECURSIVE Written(_)
Written(segs) ==
    IF segs = <<>> THEN <<>> ELSE SegWritten(Head(segs)) \o Written(Tail(segs))

\* No index expression of the path has a failing Debug impl.
AllWritesSucceed == \A i \in DOMAIN path :
    path[i].kind = "index" => DebugFmt(Eval(path[i].e)).ok

\* The positions of the index segments among segs, ascending, offset by k.
RECURSIVE IndexPositions(_, _)
IndexPositions(segs, k) ==
    IF segs = <<>> THEN <<>>
    ELSE (IF Head(segs).kind = "index" THEN <<k + 1>> ELSE <<>>)
         \o IndexPositions(Tail(segs), k + 1)

\* very.nested["value"].on.index[2]
PathTestText ==
    <<"v", "e", "r", "y", ".", "n", "e", "s", "t", "e", "d",
      "[", "\"", "v", "a", "l", "u", "e", "\"", "]",
      ".", "o", "n", ".", "i", "n", "d", "e", "x", "[", "2", "]">>

-----------------------------------------------------------------------------
(* Claims: feature configurations *)

C10_ShimMatchesConfiguration ==
    (mode = "path" /\ pc # "build" /\ DynPathDefined) =>
        /\ std => ImportAllocExpansion = "empty"
        /\ (~std /\ alloc) => ImportAllocExpansion = "use_alloc"
        /\ ImportAllocExpansion = "use_alloc" => ExternAllocDeclared
        /\ buildErr = "none"

====
